---- MODULE Spec2Model ----
(***************************************************************************)
(* Model of the image pipeline of app/compression/image_processor.py:      *)
(* ImageCompressor.compress_image with its normalizer, format resolver,    *)
(* resizer, compression strategies and the high-mode retry.                *)
(*                                                                         *)
(* A raster is a record of what the code reads of a PIL image: format,     *)
(* mode, size, the minimum of its alpha channel and its info tags.  The    *)
(* codec is external: the length of what an encode returns is an input.    *)
(* Optional values (None in Python) are sequences: <<>> is None, <<x>> is  *)
(* the value x.                                                            *)
(***************************************************************************)
EXTENDS Integers, Sequences, FiniteSets, TLC

VARIABLES pc, req, out, encCalls, rz

vars == <<pc, req, out, encCalls, rz>>

None == <<>>

Some(x) == <<x>>

IsNone(o) == o = <<>>

Val(o) == o[1]

(***************************************************************************)
(* Bounds of the model.                                                    *)
(***************************************************************************)
\* encoded and original byte lengths range over 1..MaxBytes
MaxBytes == 2

\* source sides and resize bounds of the resizer specification: 1..MaxDim
MaxDim == 7

(***************************************************************************)
(* Program constants.                                                      *)
(***************************************************************************)
RetryRatioLimit == 50

RetryQualityCap == 30

LosslessJpegQuality == 95

LosslessWebpEffort == 80

WebWebpQuality == 75

WebJpegQuality == 85

HighWebpQuality == 40

HighJpegQuality == 60

OpaqueAlpha == 255

(***************************************************************************)
(* Arithmetic.                                                             *)
(***************************************************************************)
Max(a, b) == IF a >= b THEN a ELSE b

Min(a, b) == IF a <= b THEN a ELSE b

\* Python's round() of the quotient n/d (n >= 0, d > 0).  The code rounds a
\* float: away from a tie the float lies on the same side as the exact
\* quotient; at an exact tie (fraction one half) the float product or
\* quotient may fall on either side (15/22*11 rounds to 7, 3/2*1 to 2), so
\* the direction of a tie is the input tieUp.
PyRound(n, d, tieUp) ==
    LET q == n \div d
        r == n % d
    IN  IF 2 * r < d THEN q
        ELSE IF 2 * r > d THEN q + 1
        ELSE IF tieUp THEN q + 1 ELSE q

\* round(len / original_size * 100, 2), in hundredths of a percent
Ratio(len, original_size, tieUp) == PyRound(len * 10000, original_size, tieUp)

(***************************************************************************)
(* The resizer.                                                            *)
(***************************************************************************)
\* img.resize(size, LANCZOS): PIL builds a new image; mode and info are
\* carried over, the format attribute of a new image is None, and the code
\* does not set it back.
PilResize(img, size) == [img EXCEPT !.size = size, !.format = "None"]

\* faulty variant: the derived side is scaled by the inverse of the aspect ratio
ResizeTargetInverted(size, max_width, max_height, tieUp) ==
    LET width == size[1]
        height == size[2]
    IN  IF ~IsNone(max_width) /\ ~IsNone(max_height)
        THEN IF width > Val(max_width) \/ height > Val(max_height)
             THEN IF Val(max_width) * height > width * Val(max_height)
                  THEN <<Max(1, PyRound(Val(max_height) * height, width, tieUp)),
                         Val(max_height)>>
                  ELSE <<Val(max_width),
                         Max(1, PyRound(Val(max_width) * width, height, tieUp))>>
             ELSE <<Val(max_width), Val(max_height)>>
        ELSE IF ~IsNone(max_width)
        THEN <<Val(max_width), Max(1, PyRound(Val(max_width) * width, height, tieUp))>>
        ELSE <<Max(1, PyRound(Val(max_height) * height, width, tieUp)), Val(max_height)>>

\* the (max_width, max_height) computed at lines 476-490
ResizeTarget(size, max_width, max_height, tieUp) ==
    LET width == size[1]
        height == size[2]
    IN  IF ~IsNone(max_width) /\ ~IsNone(max_height)
        THEN IF width > Val(max_width) \/ height > Val(max_height)
             THEN IF Val(max_width) * height > width * Val(max_height)
                  THEN <<Max(1, PyRound(Val(max_height) * width, height, tieUp)),
                         Val(max_height)>>
                  ELSE <<Val(max_width),
                         Max(1, PyRound(Val(max_width) * height, width, tieUp))>>
             ELSE <<Val(max_width), Val(max_height)>>
        ELSE IF ~IsNone(max_width)
        THEN <<Val(max_width), Max(1, PyRound(Val(max_width) * height, width, tieUp))>>
        ELSE <<Max(1, PyRound(Val(max_height) * width, height, tieUp)), Val(max_height)>>

\* faulty variant: resize whenever the target differs from the source
ShouldResizeAny(size, target) == target # size

\* faulty variant: resize also when the target equals the source
ShouldResizeNonStrict(size, target) == target[1] <= size[1] \/ target[2] <= size[2]

\* the guard of line 492
ShouldResize(size, target) == target[1] < size[1] \/ target[2] < size[2]

\* _resize_image; a zero max_width / max_height is falsy, i.e. absent
Falsy(o) == IsNone(o) \/ Val(o) = 0

Norm(o) == IF Falsy(o) THEN None ELSE o

_resize_image(img, max_width, max_height, tieUp) ==
    IF Falsy(max_width) /\ Falsy(max_height) THEN img
    ELSE IF img.size[2] = 0 THEN img
    ELSE LET target == ResizeTarget(img.size, Norm(max_width), Norm(max_height), tieUp)
         IN  IF ShouldResize(img.size, target) THEN PilResize(img, target) ELSE img

\* whether _resize_image reached img.resize (line 493)
Resampled(img, max_width, max_height, tieUp) ==
    /\ ~(Falsy(max_width) /\ Falsy(max_height))
    /\ img.size[2] # 0
    /\ ShouldResize(img.size,
                    ResizeTarget(img.size, Norm(max_width), Norm(max_height), tieUp))

(***************************************************************************)
(* The normalizer.                                                         *)
(***************************************************************************)
\* ImageOps.exif_transpose and the format restored at line 53: orientations
\* 5..8 exchange width and height, the orientation tag is dropped.
_apply_exif_orientation(img) ==
    IF img.orient \in 5..8
    THEN [img EXCEPT !.size = <<img.size[2], img.size[1]>>, !.orient = 1]
    ELSE [img EXCEPT !.orient = 1]

\* img.convert(mode): a mode without alpha channel has no alpha minimum
Convert(img, mode) ==
    [img EXCEPT !.mode = mode,
                !.alpha = IF mode \in {"RGBA", "LA"} THEN img.alpha ELSE OpaqueAlpha]

\* faulty variant: a palette raster always becomes RGB
NormalizeColorModePaletteRgb(img) ==
    IF img.mode \in {"RGB", "RGBA", "LA", "L"} THEN img
    ELSE Convert(img, "RGB")

\* lines 59-83; I and 1 go through L to RGB, the format is restored at
\* line 81
_normalize_color_mode(img) ==
    IF img.mode \in {"RGB", "RGBA", "LA", "L"} THEN img
    ELSE IF img.mode = "CMYK" THEN Convert(img, "RGB")
    ELSE IF img.mode \in {"P", "PA"}
    THEN IF img.transparency \/ img.mode = "PA"
         THEN Convert(img, "RGBA")
         ELSE Convert(img, "RGB")
    ELSE Convert(img, "RGB")

\* ImageCms.profileToProfile builds a new image of the same mode whose info
\* holds the sRGB profile only; the format is restored at line 99.
_convert_to_srgb(img) ==
    IF img.icc = "none" \/ img.mode \notin {"RGB", "RGBA"} THEN img
    ELSE [img EXCEPT !.icc = "sRGB", !.exif = FALSE]

(***************************************************************************)
(* Transparency.                                                           *)
(***************************************************************************)
\* faulty variant: an alpha channel alone counts as transparency
HasAlphaChannel(img) == img.mode \in {"RGBA", "LA"}

_has_transparency(img) ==
    IF img.mode = "RGBA" THEN img.alpha < OpaqueAlpha
    ELSE IF img.mode = "LA" THEN img.alpha < OpaqueAlpha
    ELSE FALSE

\* faulty variant: the alpha channel is dropped without a background
RemoveTransparencyByConvert(img) ==
    IF img.mode \in {"RGBA", "LA"} THEN Convert(img, "RGB") ELSE img

\* lines 146-155: a new white RGB image of the same size, the raster pasted
\* on it with its alpha channel as mask; the new image has no format and an
\* empty info
_remove_transparency(img) ==
    IF img.mode \in {"RGBA", "LA"}
    THEN [format |-> "None", mode |-> "RGB", alpha |-> OpaqueAlpha,
          transparency |-> FALSE, size |-> img.size, exif |-> FALSE,
          orient |-> 1, icc |-> "none", matte |-> "white"]
    ELSE img

(***************************************************************************)
(* The encoders.  An encode is the record of what img.save is handed:      *)
(* the container format, the quality, the raster's mode and size, and the  *)
(* exif / icc_profile parameters, the ICC profile in the info of the       *)
(* raster it is called on and the background that raster was pasted on.    *)
(***************************************************************************)
Save(fn, img, format, quality, exif, icc) ==
    [fn |-> fn, format |-> format, quality |-> quality, mode |-> img.mode,
     size |-> img.size, exif |-> exif, icc |-> icc, info_icc |-> img.icc,
     matte |-> img.matte]

\* the ICC profile the written file holds.  The JPEG and WEBP writers embed
\* the icc_profile parameter only; the PNG and TIFF writers of Pillow take
\* the profile from the raster's info when save gets no icc_profile
\* parameter (lines 171-177 and 231-233 pass none when stripping)
EmbeddedIcc(call) ==
    IF call.format \in {"PNG", "TIFF"} /\ call.icc = "none" THEN call.info_icc
    ELSE call.icc

\* faulty variant: the caller's quality is ignored
OrDefaultAlways(quality, default) == Some(default)

OrDefault(quality, default) == IF IsNone(quality) THEN Some(default) ELSE quality

\* the raster handed to a WEBP save (lines 183-188, 266-271, 311-316)
ForWebp(img) ==
    IF img.mode \in {"RGBA", "LA"}
    THEN IF img.mode = "RGBA" THEN img ELSE Convert(img, "RGBA")
    ELSE IF img.mode = "RGB" THEN img ELSE Convert(img, "RGB")

\* the raster handed to a JPEG save (lines 201-203, 274-276, 319-321)
ForJpeg(img) ==
    LET processed == _remove_transparency(img)
    IN  IF processed.mode # "RGB" THEN Convert(processed, "RGB") ELSE processed

_save_as_png(img, strip_metadata) ==
    Save("_save_as_png", img, "PNG", None, FALSE,
         IF ~strip_metadata THEN img.icc ELSE "none")

_save_as_webp_lossless(img, strip_metadata) ==
    Save("_save_as_webp_lossless", ForWebp(img), "WEBP", Some(LosslessWebpEffort), FALSE,
         IF ~strip_metadata THEN img.icc ELSE "none")

_save_as_jpeg_quality(img, quality, strip_metadata) ==
    Save("_save_as_jpeg_quality", ForJpeg(img), "JPEG",
         OrDefault(quality, LosslessJpegQuality),
         ~strip_metadata /\ img.exif,
         IF ~strip_metadata THEN img.icc ELSE "none")

_compress_lossless(img, quality, use_webp) ==
    LET save_format == IF img.format # "None" THEN img.format ELSE "PNG"
    IN  IF save_format = "PNG"
        THEN Save("_compress_lossless", img, save_format, None, FALSE, "none")
        ELSE IF save_format \in {"JPEG", "JPG"}
        THEN Save("_compress_lossless", img, save_format,
                  OrDefault(quality, LosslessJpegQuality), img.exif, img.icc)
        ELSE IF save_format = "WEBP"
        THEN Save("_compress_lossless", img, save_format, Some(LosslessWebpEffort),
                  FALSE, "none")
        ELSE IF save_format = "TIFF"
        THEN Save("_compress_lossless", img, save_format, None, FALSE, img.icc)
        ELSE Save("_compress_lossless", img, save_format, None, FALSE, "none")

_compress_web(img, quality, use_webp) ==
    IF use_webp
    THEN Save("_compress_web", ForWebp(img), "WEBP", OrDefault(quality, WebWebpQuality),
              FALSE, "none")
    ELSE Save("_compress_web", ForJpeg(img), "JPEG", OrDefault(quality, WebJpegQuality),
              FALSE, "none")

_compress_high(img, quality, use_webp) ==
    IF use_webp
    THEN Save("_compress_high", ForWebp(img), "WEBP", OrDefault(quality, HighWebpQuality),
              FALSE, "none")
    ELSE Save("_compress_high", ForJpeg(img), "JPEG", OrDefault(quality, HighJpegQuality),
              FALSE, "none")

\* self.compression_modes[mode](img, quality, use_webp), line 425
compression_modes(mode, img, quality, use_webp) ==
    IF mode = "lossless" THEN _compress_lossless(img, quality, use_webp)
    ELSE IF mode = "web" THEN _compress_web(img, quality, use_webp)
    ELSE _compress_high(img, quality, use_webp)

(***************************************************************************)
(* compress_image.                                                         *)
(***************************************************************************)
\* lines 372-380: orientation, colour mode, then sRGB for web / high
Normalize(img, mode) ==
    LET oriented == _apply_exif_orientation(img)
        canonical == _normalize_color_mode(oriented)
    IN  IF mode \in {"web", "high"} THEN _convert_to_srgb(canonical) ELSE canonical

\* faulty variant: the auto policy never selects WebP
ResolveFormatAutoJpeg(mode, output_format, has_transparency) ==
    IF output_format = "png"
    THEN [use_webp |-> FALSE, target_png |-> TRUE, format_warnings |-> <<>>]
    ELSE IF output_format = "webp" /\ mode # "lossless"
    THEN [use_webp |-> TRUE, target_png |-> FALSE, format_warnings |-> <<>>]
    ELSE [use_webp |-> FALSE, target_png |-> FALSE, format_warnings |-> <<>>]

\* faulty variant: an explicit jpeg target never warns
ResolveFormatJpegSilent(mode, output_format, has_transparency) ==
    IF mode = "lossless" /\ output_format = "auto"
    THEN [use_webp |-> FALSE, target_png |-> FALSE, format_warnings |-> <<>>]
    ELSE IF output_format = "png"
    THEN [use_webp |-> FALSE, target_png |-> TRUE, format_warnings |-> <<>>]
    ELSE IF output_format = "webp"
    THEN [use_webp |-> TRUE, target_png |-> FALSE, format_warnings |-> <<>>]
    ELSE IF output_format = "jpeg"
    THEN [use_webp |-> FALSE, target_png |-> FALSE, format_warnings |-> <<>>]
    ELSE [use_webp |-> has_transparency, target_png |-> FALSE,
          format_warnings |-> IF has_transparency THEN <<"webp_preserves_transparency">>
                              ELSE <<>>]

\* lines 386-409: output_format resolved to use_webp / target_png
ResolveFormat(mode, output_format, has_transparency) ==
    IF mode = "lossless" /\ output_format = "auto"
    THEN [use_webp |-> FALSE, target_png |-> FALSE, format_warnings |-> <<>>]
    ELSE IF output_format = "png"
    THEN [use_webp |-> FALSE, target_png |-> TRUE, format_warnings |-> <<>>]
    ELSE IF output_format = "webp"
    THEN [use_webp |-> TRUE, target_png |-> FALSE, format_warnings |-> <<>>]
    ELSE IF output_format = "jpeg"
    THEN [use_webp |-> FALSE, target_png |-> FALSE,
          format_warnings |-> IF has_transparency THEN <<"jpeg_flattens_transparency">>
                              ELSE <<>>]
    ELSE [use_webp |-> has_transparency, target_png |-> FALSE,
          format_warnings |-> IF has_transparency THEN <<"webp_preserves_transparency">>
                              ELSE <<>>]

\* lines 417-425: the first encode
FirstEncode(img, mode, output_format, quality, use_webp, target_png) ==
    LET strip_metadata == mode # "lossless"
    IN  IF target_png THEN _save_as_png(img, strip_metadata)
        ELSE IF mode = "lossless" /\ output_format = "webp"
        THEN _save_as_webp_lossless(img, FALSE)
        ELSE IF mode = "lossless" /\ output_format = "jpeg"
        THEN _save_as_jpeg_quality(img, quality, FALSE)
        ELSE compression_modes(mode, img, quality, use_webp)

\* faulty variant: the retry is not restricted to high mode
NeedsRetryAnyMode(mode, target_png, compression_ratio) ==
    ~target_png /\ compression_ratio > RetryRatioLimit * 100

\* line 432: whether the high-mode retry runs
NeedsRetry(mode, target_png, compression_ratio) ==
    mode = "high" /\ ~target_png /\ compression_ratio > RetryRatioLimit * 100

\* faulty variant: the retry always uses the cap
RetryQualityFixed(quality) == Some(RetryQualityCap)

\* line 433
RetryQuality(quality) ==
    IF ~IsNone(quality) THEN Some(Min(Val(quality), RetryQualityCap))
    ELSE Some(RetryQualityCap)

\* faulty variant: the retry's bytes are adopted, the first ratio is reported
KeepBetterStaleRatio(first_data, first_ratio, retry_data, retry_ratio, format_warnings) ==
    IF retry_ratio < first_ratio
    THEN [data |-> retry_data, ratio |-> first_ratio,
          format_warnings |-> Append(format_warnings, "aggressive_retry_applied")]
    ELSE [data |-> first_data, ratio |-> first_ratio,
          format_warnings |-> format_warnings]

\* faulty variant: the retry's result is adopted whatever its ratio
KeepBetterAlways(first_data, first_ratio, retry_data, retry_ratio, format_warnings) ==
    [data |-> retry_data, ratio |-> retry_ratio,
     format_warnings |-> Append(format_warnings, "aggressive_retry_applied")]

\* lines 436-444: the retry's bytes and ratio replace the first ones only when
\* the retry's ratio is strictly smaller
KeepBetter(first_data, first_ratio, retry_data, retry_ratio, format_warnings) ==
    IF retry_ratio < first_ratio
    THEN [data |-> retry_data, ratio |-> retry_ratio,
          format_warnings |-> Append(format_warnings, "aggressive_retry_applied")]
    ELSE [data |-> first_data, ratio |-> first_ratio,
          format_warnings |-> format_warnings]

\* faulty variant: the reported format of a png target is the source's
ResolvedFormatOfSource(mode, output_format, original_format, use_webp, target_png) ==
    IF target_png THEN original_format
    ELSE IF use_webp THEN "WEBP"
    ELSE "JPEG"

\* lines 446-456
ResolvedFormat(mode, output_format, original_format, use_webp, target_png) ==
    IF target_png THEN "PNG"
    ELSE IF mode = "lossless" /\ output_format \in {"webp", "jpeg"}
    THEN IF output_format = "webp" THEN "WEBP" ELSE "JPEG"
    ELSE IF mode = "lossless"
    THEN IF original_format # "None" THEN original_format ELSE "PNG"
    ELSE IF use_webp THEN "WEBP"
    ELSE "JPEG"

\* lines 382-469: compress_image from the normalized raster img on, for a
\* mode the dispatch of line 425 knows.  r is the call: the preloaded image,
\* the length of image_data, mode, max_width, max_height, quality,
\* output_format and the direction float ties round to; first_len and
\* retry_len are the lengths of what the codec returns for the first encode
\* and for the retry.  The result is the returned bytes, the metadata and
\* the encodes made.
AfterNormalize(img, r, first_len, retry_len) ==
    LET original_format == img.format
        original_size == r.original_size
        original_dimensions == img.size
        has_transparency == _has_transparency(img)
        resolved == ResolveFormat(r.mode, r.output_format, has_transparency)
        use_webp == resolved.use_webp
        target_png == resolved.target_png
        resized == IF ~Falsy(r.max_width) \/ ~Falsy(r.max_height)
                   THEN _resize_image(img, r.max_width, r.max_height, r.tieUp)
                   ELSE img
        first_call == FirstEncode(resized, r.mode, r.output_format, r.quality,
                                  use_webp, target_png)
        first_data == [attempt |-> 1, len |-> first_len]
        first_ratio == Ratio(first_len, original_size, r.tieUp)
        retry == NeedsRetry(r.mode, target_png, first_ratio)
        retry_call == _compress_high(resized, RetryQuality(r.quality), use_webp)
        retry_data == [attempt |-> 2, len |-> retry_len]
        retry_ratio == Ratio(retry_len, original_size, r.tieUp)
        final == IF retry
                 THEN KeepBetter(first_data, first_ratio, retry_data, retry_ratio,
                                 resolved.format_warnings)
                 ELSE [data |-> first_data, ratio |-> first_ratio,
                       format_warnings |-> resolved.format_warnings]
    IN  [data |-> final.data,
         metadata |->
            [original_size |-> original_size,
             compressed_size |-> final.data.len,
             original_dimensions |-> original_dimensions,
             final_dimensions |-> resized.size,
             compression_ratio |-> final.ratio,
             format |-> ResolvedFormat(r.mode, r.output_format, original_format,
                                       use_webp, target_png),
             original_format |-> original_format,
             format_warnings |-> final.format_warnings],
         calls |-> IF retry THEN <<first_call, retry_call>> ELSE <<first_call>>,
         has_transparency |-> has_transparency,
         resampled |-> Resampled(img, r.max_width, r.max_height, r.tieUp)]

\* compress_image: the normalizer of lines 372-380, then the rest
compress_image(r, first_len, retry_len) ==
    AfterNormalize(Normalize(r.image, r.mode), r, first_len, retry_len)

(***************************************************************************)
(* Inputs.                                                                 *)
(***************************************************************************)
Formats == {"JPEG", "PNG", "WEBP", "TIFF"}

Modes == {"lossless", "web", "high"}

OutputFormats == {"auto", "webp", "jpeg", "png"}

\* a pixel mode with the minimum of its alpha channel (of the alpha its
\* palette transparency yields, for P) and whether info has 'transparency'
Kind(mode, alpha, transparency) ==
    [mode |-> mode, alpha |-> alpha, transparency |-> transparency]

\* the rasters a decoder of each format yields
KindsOf(format) ==
    IF format = "JPEG"
    THEN {Kind("RGB", OpaqueAlpha, FALSE), Kind("L", OpaqueAlpha, FALSE),
          Kind("CMYK", OpaqueAlpha, FALSE)}
    ELSE IF format = "PNG"
    THEN {Kind("RGB", OpaqueAlpha, FALSE), Kind("L", OpaqueAlpha, FALSE),
          Kind("RGBA", OpaqueAlpha - 1, FALSE), Kind("RGBA", OpaqueAlpha, FALSE),
          Kind("LA", OpaqueAlpha - 1, FALSE), Kind("LA", OpaqueAlpha, FALSE),
          Kind("P", 0, TRUE), Kind("P", OpaqueAlpha, FALSE)}
    ELSE IF format = "WEBP"
    THEN {Kind("RGB", OpaqueAlpha, FALSE), Kind("RGBA", 0, FALSE)}
    ELSE {Kind("RGB", OpaqueAlpha, FALSE), Kind("RGBA", OpaqueAlpha, FALSE),
          Kind("CMYK", OpaqueAlpha, FALSE)}

\* info of a decoded image: <<EXIF blob present, orientation tag, ICC
\* profile>>; an orientation tag needs an EXIF blob
MetaTags == {<<FALSE, 1, "none">>, <<FALSE, 1, "source">>, <<TRUE, 6, "source">>}

SourceSizes == {<<4, 3>>}

Images ==
    {[format |-> f, mode |-> k.mode, alpha |-> k.alpha,
      transparency |-> k.transparency, size |-> sz,
      exif |-> m[1], orient |-> m[2], icc |-> m[3], matte |-> "none"] :
        f \in Formats, k \in UNION {KindsOf(g) : g \in Formats}, sz \in SourceSizes,
        m \in MetaTags}

DecodedImages == {i \in Images :
                    [mode |-> i.mode, alpha |-> i.alpha,
                     transparency |-> i.transparency] \in KindsOf(i.format)}

Qualities == {None, Some(20), Some(80)}

\* (max_width, max_height) of a call: none, one that resizes (with and
\* without a rounding tie on the 4x3 source), both without a resize
ResizeBounds == {<<None, None>>, <<Some(2), None>>, <<None, Some(2)>>,
                 <<Some(5), Some(5)>>}

Lengths == 1..MaxBytes

(***************************************************************************)
(* State machine.                                                          *)
(***************************************************************************)
\* the arguments of a call of compress_image on a validated image
Calls ==
    {[image |-> image, original_size |-> original_size, mode |-> mode,
      max_width |-> bounds[1], max_height |-> bounds[2], quality |-> quality,
      output_format |-> output_format] :
        image \in DecodedImages, original_size \in Lengths, mode \in Modes,
        bounds \in ResizeBounds, quality \in Qualities,
        output_format \in OutputFormats}

\* compress_image is entered with its arguments; the compressor itself holds
\* nothing but its configuration
Init ==
    /\ pc = "called"
    /\ req \in Calls
    /\ out = <<>>
    /\ encCalls = <<>>
    /\ rz = <<>>

WithTie(call, tieUp) ==
    [image |-> call.image, original_size |-> call.original_size, mode |-> call.mode,
     max_width |-> call.max_width, max_height |-> call.max_height,
     quality |-> call.quality, output_format |-> call.output_format,
     tieUp |-> tieUp]

\* the call runs to its return.  The codec decides the lengths of the
\* encodes; the tie direction is recorded as FALSE when no rounding of the
\* call meets a tie, the retry's length as 0 when the call makes no retry.
CompressImage ==
    /\ pc = "called"
    /\ \E first_len \in Lengths, retry_len \in Lengths :
          LET up == compress_image(WithTie(req, TRUE), first_len, retry_len)
              down == compress_image(WithTie(req, FALSE), first_len, retry_len)
          IN  \E tieUp \in IF up # down THEN BOOLEAN ELSE {FALSE} :
                 LET res == IF tieUp THEN up ELSE down
                     retried == Len(res.calls) = 2
                 IN  /\ retried \/ retry_len = 1
                     /\ out' = [data |-> res.data, metadata |-> res.metadata,
                                first_len |-> first_len,
                                retry_len |-> IF retried THEN retry_len ELSE 0,
                                tieUp |-> tieUp,
                                has_transparency |-> res.has_transparency,
                                resampled |-> res.resampled]
                     /\ encCalls' = res.calls
                     /\ pc' = "done"
    /\ UNCHANGED <<req, rz>>

Next == CompressImage

Spec == Init /\ [][Next]_vars

(***************************************************************************)
(* The resizer alone: _resize_image applied to a raster, then applied      *)
(* again, with the same bounds, to its own result.                         *)
(***************************************************************************)
Sides == 1..MaxDim

\* max_width / max_height as a caller may pass them: None, 0 or positive
Bounds == {None} \cup {Some(n) : n \in 0..MaxDim}

\* the 4000x3000 source with maxWidth=2000 of the specification's scenario
ScenarioInputs == {[size |-> <<4000, 3000>>, max_width |-> Some(2000),
                    max_height |-> None]}

ResizerInputs ==
    [size : Sides \X Sides, max_width : Bounds, max_height : Bounds]
        \cup ScenarioInputs

Raster(size) ==
    [format |-> "JPEG", mode |-> "RGB", alpha |-> OpaqueAlpha, transparency |-> FALSE,
     size |-> size, exif |-> FALSE, orient |-> 1, icc |-> "none", matte |-> "none"]

InitResize ==
    /\ pc = "resize"
    /\ req = <<>>
    /\ out = <<>>
    /\ encCalls = <<>>
    /\ \E i \in ResizerInputs :
          rz = [stage |-> "input", size |-> i.size, max_width |-> i.max_width,
                max_height |-> i.max_height, once |-> Raster(i.size),
                resampled |-> FALSE, twice |-> Raster(i.size),
                resampledAgain |-> FALSE]

ResizeOnce ==
    /\ pc = "resize"
    /\ rz.stage = "input"
    /\ \E tieUp \in BOOLEAN :
          rz' = [rz EXCEPT
                   !.stage = "once",
                   !.once = _resize_image(Raster(rz.size), rz.max_width,
                                          rz.max_height, tieUp),
                   !.resampled = Resampled(Raster(rz.size), rz.max_width,
                                           rz.max_height, tieUp)]
    /\ UNCHANGED <<pc, req, out, encCalls>>

ResizeAgain ==
    /\ pc = "resize"
    /\ rz.stage = "once"
    /\ \E tieUp \in BOOLEAN :
          rz' = [rz EXCEPT
                   !.stage = "twice",
                   !.twice = _resize_image(rz.once, rz.max_width, rz.max_height, tieUp),
                   !.resampledAgain = Resampled(rz.once, rz.max_width,
                                                rz.max_height, tieUp)]
    /\ UNCHANGED <<pc, req, out, encCalls>>

NextResize == ResizeOnce \/ ResizeAgain

SpecResize == InitResize /\ [][NextResize]_vars

(***************************************************************************)
(* Properties of compress_image (specification Spec).                      *)
(***************************************************************************)
Done == pc = "done"

\* the raster after the normalizer, as line 388 sees it
Normalized == Normalize(req.image, req.mode)

\* the raster has an alpha channel whose minimum is below full opacity
AlphaBelowOpaque(img) == img.mode \in {"RGBA", "LA"} /\ img.alpha < OpaqueAlpha

\* ratio of the first encode and of the retry, in hundredths of a percent
FirstRatio == Ratio(out.first_len, req.original_size, out.tieUp)

RetryRatio == Ratio(out.retry_len, req.original_size, out.tieUp)

Retried == Len(encCalls) = 2

FormatWarnings == {"jpeg_flattens_transparency", "webp_preserves_transparency"}

Elems(seq) == {seq[i] : i \in 1..Len(seq)}

\* C1: for every successful compress_image call on a non-empty input,
\* compressed_size is the length of the returned bytes and compression_ratio
\* is round(compressed_size / original_size * 100, 2); both come from the
\* retry's bytes when the retry was adopted and from the first encode
\* otherwise.
C1_MetadataFromReturnedBytes ==
    Done =>
        /\ out.metadata.compressed_size = out.data.len
        /\ out.metadata.compression_ratio =
              Ratio(out.metadata.compressed_size, out.metadata.original_size, out.tieUp)
        /\ out.metadata.original_size = req.original_size
        /\ out.data.attempt = 2 => out.data.len = out.retry_len
        /\ out.data.attempt = 1 => out.data.len = out.first_len

\* a call whose retry was adopted and is shorter than the first encode
C1_Witness ==
    Done /\ out.data.attempt = 2 /\ out.retry_len < out.first_len

\* C2: in lossless mode with output policy auto the encoder is invoked with
\* the source image's own format and the reported format is that format,
\* for every resize setting, also when the resizer produced a new raster.
C2_LosslessAutoKeepsSourceFormat ==
    (Done /\ req.mode = "lossless" /\ req.output_format = "auto") =>
        /\ encCalls[1].format = req.image.format
        /\ out.metadata.format = req.image.format

\* C3: in web or high mode with output policy auto the resolved format is
\* WEBP with a transparency-preservation warning if the normalized raster
\* has transparency, and JPEG with no format warning if it is opaque.
C3_AutoPolicyFollowsTransparency ==
    (Done /\ req.mode \in {"web", "high"} /\ req.output_format = "auto") =>
        IF AlphaBelowOpaque(Normalized)
        THEN /\ out.metadata.format = "WEBP"
             /\ "webp_preserves_transparency" \in Elems(out.metadata.format_warnings)
        ELSE /\ out.metadata.format = "JPEG"
             /\ Elems(out.metadata.format_warnings) \cap FormatWarnings = {}

\* a transparent RGBA PNG in high mode under auto resolved to WEBP
C3_Witness ==
    /\ Done /\ req.mode = "high" /\ req.output_format = "auto"
    /\ req.image.format = "PNG" /\ req.image.mode = "RGBA"
    /\ req.image.alpha < OpaqueAlpha
    /\ out.metadata.format = "WEBP"

\* C4: transparency detection is true exactly when the mode is RGBA or LA
\* and the alpha minimum is below 255; a fully opaque RGBA / LA raster, and
\* every other mode, is non-transparent and goes to JPEG under auto in web
\* and high mode.
C4_TransparencyDetection ==
    Done =>
        /\ out.has_transparency = AlphaBelowOpaque(Normalized)
        /\ (/\ ~AlphaBelowOpaque(Normalized)
            /\ req.mode \in {"web", "high"}
            /\ req.output_format = "auto")
              => /\ out.metadata.format = "JPEG"
                 /\ encCalls[1].format = "JPEG"

\* a fully opaque RGBA raster classified as non-transparent and sent to JPEG
C4_Witness ==
    /\ Done /\ req.mode = "web" /\ req.output_format = "auto"
    /\ req.image.mode = "RGBA" /\ req.image.alpha = OpaqueAlpha
    /\ ~out.has_transparency
    /\ out.metadata.format = "JPEG"

\* C5: in high mode the returned bytes and ratio are never worse than the
\* first encode: the retry replaces the first result only if its ratio is
\* strictly smaller, otherwise the first result is returned unchanged.
C5_RetryNeverWorse ==
    (Done /\ req.mode = "high") =>
        /\ out.metadata.compression_ratio <= FirstRatio
        /\ out.data.len <= out.first_len
        /\ out.data.attempt = 2 =>
              /\ Retried
              /\ RetryRatio < FirstRatio
              /\ out.data.len = out.retry_len
              /\ out.metadata.compression_ratio = RetryRatio
        /\ out.data.attempt = 1 =>
              /\ out.data.len = out.first_len
              /\ out.metadata.compression_ratio = FirstRatio
              /\ Retried => RetryRatio >= FirstRatio

\* a retry that did not help: the first result is returned
C5_Witness ==
    /\ Done /\ req.mode = "high" /\ Retried
    /\ RetryRatio >= FirstRatio
    /\ out.data.attempt = 1

\* C6: a second encode happens iff the mode is high, the target is not PNG
\* and the first ratio is above 50; the encoder is invoked at most twice and
\* once only in lossless or web mode or for a PNG target.
C6_RetryOnlyWhenNeeded ==
    Done =>
        /\ Len(encCalls) \in {1, 2}
        /\ Retried <=> (/\ req.mode = "high"
                        /\ encCalls[1].format # "PNG"
                        /\ FirstRatio > RetryRatioLimit * 100)
        /\ Retried => encCalls[2].fn = "_compress_high"

\* a call that encoded twice
C6_Witness == Done /\ Retried /\ encCalls[1].format # "PNG"

\* C7: the retry's quality is min(requested, 30) when a quality was
\* requested and 30 otherwise: at most 30, never above the requested one.
C7_RetryQualityClamped ==
    (Done /\ Retried) =>
        /\ encCalls[2].quality =
              IF IsNone(req.quality) THEN Some(RetryQualityCap)
              ELSE Some(Min(Val(req.quality), RetryQualityCap))
        /\ Val(encCalls[2].quality) <= RetryQualityCap
        /\ ~IsNone(req.quality) => Val(encCalls[2].quality) <= Val(req.quality)

\* a retry whose requested quality is below the cap
C7_Witness ==
    /\ Done /\ Retried /\ ~IsNone(req.quality)
    /\ Val(req.quality) < RetryQualityCap
    /\ encCalls[2].quality = req.quality

(***************************************************************************)
(* Properties of the resizer (specification SpecResize).                   *)
(***************************************************************************)
Resized == pc = "resize" /\ rz.stage # "input"

\* a bound that was given: not None and not 0
Given(bound) == ~IsNone(bound) /\ Val(bound) > 0

\* a given bound below the source's side
Tighter(bound, side) == Given(bound) /\ Val(bound) < side

\* the source lies within every given bound
WithinBounds(size, max_width, max_height) ==
    /\ Given(max_width) => size[1] <= Val(max_width)
    /\ Given(max_height) => size[2] <= Val(max_height)

Abs(x) == IF x < 0 THEN -x ELSE x

\* C8: the resizer never upscales and never exceeds a given bound: the
\* output's sides are at most the source's, and at most their bounds when
\* the image was resized.
C8_NoUpscaleNoOverflow ==
    Resized =>
        /\ rz.once.size[1] <= rz.size[1]
        /\ rz.once.size[2] <= rz.size[2]
        /\ rz.once.size[1] >= 1 /\ rz.once.size[2] >= 1
        /\ rz.resampled =>
              /\ Given(rz.max_width) => rz.once.size[1] <= Val(rz.max_width)
              /\ Given(rz.max_height) => rz.once.size[2] <= Val(rz.max_height)

\* a resize under two bounds of which only the height is tighter
C8_Witness ==
    /\ Resized /\ rz.resampled
    /\ Given(rz.max_width) /\ Given(rz.max_height)
    /\ Val(rz.max_width) > rz.size[1]
    /\ rz.once.size[1] < rz.size[1]

\* C9: with at least one bound tighter than the source, the constrained
\* side equals its bound and the derived side is within one pixel of the
\* bound scaled by the source's ratio; 4000x3000 with maxWidth=2000 alone
\* gives exactly (2000, 1500).
C9_AspectRatioPreserved ==
    Resized =>
        /\ (Tighter(rz.max_width, rz.size[1]) \/ Tighter(rz.max_height, rz.size[2])) =>
              \/ /\ Given(rz.max_width)
                 /\ rz.once.size[1] = Val(rz.max_width)
                 /\ Abs(rz.once.size[2] * rz.size[1] - Val(rz.max_width) * rz.size[2])
                       <= rz.size[1]
              \/ /\ Given(rz.max_height)
                 /\ rz.once.size[2] = Val(rz.max_height)
                 /\ Abs(rz.once.size[1] * rz.size[2] - Val(rz.max_height) * rz.size[1])
                       <= rz.size[2]
        /\ (rz.size = <<4000, 3000>> /\ rz.max_width = Some(2000)
                /\ rz.max_height = None) => rz.once.size = <<2000, 1500>>

\* the scenario's source resized to (2000, 1500)
C9_Witness ==
    /\ Resized /\ rz.size = <<4000, 3000>> /\ rz.resampled
    /\ rz.once.size = <<2000, 1500>>

\* C10: a source within its bounds, or without bounds, keeps its dimensions
\* and is not resampled; the resizer applied again, with the same bounds, to
\* its own output leaves the dimensions unchanged.
C10_ResizeIdempotent ==
    /\ (Resized /\ WithinBounds(rz.size, rz.max_width, rz.max_height)) =>
          /\ rz.once.size = rz.size
          /\ ~rz.resampled
          /\ rz.once = Raster(rz.size)
    /\ (pc = "resize" /\ rz.stage = "twice") =>
          /\ rz.twice.size = rz.once.size
          /\ ~rz.resampledAgain

\* the resizer applied a second time to a raster it had shrunk
C10_Witness ==
    /\ pc = "resize" /\ rz.stage = "twice" /\ rz.resampled
    /\ rz.twice.size = rz.once.size

(***************************************************************************)
(* The validator: an ImageCompressor is constructed, then validate_image   *)
(* is applied to the bytes of an upload.                                   *)
(***************************************************************************)
MaxOver == 2

DefaultMaxFileSizeMb == 10

RoutesMaxFileSizeMb == 50

TestsMaxFileSizeMb == 1

BytesPerMb == 1024 * 1024

LargePixelCount == 40000000

\* ImageCompressor(...): the argument is None when the caller gives no limit
ImageCompressor(max_file_size_mb) ==
    [max_file_size |-> (IF IsNone(max_file_size_mb) THEN DefaultMaxFileSizeMb
                        ELSE Val(max_file_size_mb)) * BytesPerMb]

\* the constructions of the repository: without a limit, the one of the
\* routes module and the one of the tests
ConstructorArgs == {None, Some(RoutesMaxFileSizeMb), Some(TestsMaxFileSizeMb)}

SupportedFormats == {"JPEG", "PNG", "WEBP", "TIFF"}

\* what Image.open finds in the bytes: nothing it can decode, or the header
\* of an image of some format, mode and size
Headers ==
    {[format |-> f, mode |-> m, size |-> sz] :
        f \in SupportedFormats \cup {"GIF", "BMP"},
        m \in {"RGB", "RGBA", "L", "P"},
        sz \in {<<4, 3>>, <<8000, 5001>>}}

Contents == {None} \cup {Some(h) : h \in Headers}

\* the byte lengths tried against a limit: a tiny file and the lengths
\* around the limit
LengthsAround(max_file_size) ==
    {1} \cup (max_file_size - MaxOver .. max_file_size + MaxOver)

\* Image.open(io.BytesIO(image_data)): raises when nothing decodes
Image_open(image_data) ==
    IF IsNone(image_data.content) THEN [raises |-> TRUE, img |-> None]
    ELSE [raises |-> FALSE, img |-> image_data.content]

\* faulty variant: the limit itself is rejected
ExceedsLimitInclusive(len, max_file_size) == len >= max_file_size

\* line 115
ExceedsLimit(len, max_file_size) == len > max_file_size

\* faulty variant: the except clause lets the decoder's exception through
CaughtNever(raises) == FALSE

\* line 135: except Exception catches whatever the try block raised
Caught(raises) == raises

\* faulty variant: the opened image is returned whatever the errors
CarriedImageAlways(img, errors) == img

\* line 143: image=img if len(errors) == 0 else None
CarriedImage(img, errors) == IF Len(errors) = 0 THEN img ELSE None

\* lines 121-133: the checks of the try block on an opened image
FormatErrors(img) ==
    IF img.format \notin SupportedFormats THEN <<"unsupported_format">> ELSE <<>>

DimensionWarnings(img) ==
    IF img.size[1] * img.size[2] > LargePixelCount THEN <<"very_large">> ELSE <<>>

ModeWarnings(img) ==
    IF img.mode \notin {"RGB", "RGBA", "L"} THEN <<"unusual_mode">> ELSE <<>>

\* validate_image, lines 105-144.  The size check appends its error and
\* falls through to the try block, so Image.open is called on every input.
\* The outcome tells whether an exception left the method, whether
\* Image.open was called, and the ValidationResult returned.
validate_image(self, image_data) ==
    LET size_errors == IF ExceedsLimit(image_data.len, self.max_file_size)
                       THEN <<"file_size">> ELSE <<>>
        opened == Image_open(image_data)
        errors == IF opened.raises THEN Append(size_errors, "invalid_image")
                  ELSE size_errors \o FormatErrors(Val(opened.img))
        warnings == IF opened.raises THEN <<>>
                    ELSE DimensionWarnings(Val(opened.img))
                            \o ModeWarnings(Val(opened.img))
        img == IF opened.raises THEN None ELSE opened.img
    IN  IF opened.raises /\ ~Caught(opened.raises)
        THEN [raised |-> TRUE, opened |-> TRUE, result |-> None]
        ELSE [raised |-> FALSE, opened |-> TRUE,
              result |-> Some([is_valid |-> Len(errors) = 0,
                               errors |-> errors,
                               warnings |-> warnings,
                               image |-> CarriedImage(img, errors)])]

Uploads ==
    {[max_file_size_mb |-> arg, len |-> len, content |-> content] :
        arg \in ConstructorArgs,
        len \in UNION {LengthsAround(ImageCompressor(a).max_file_size) :
                          a \in ConstructorArgs},
        content \in Contents}

\* an upload arrives for a compressor still to be constructed
InitValidate ==
    /\ pc = "upload"
    /\ req \in {u \in Uploads :
                  u.len \in LengthsAround(ImageCompressor(u.max_file_size_mb).max_file_size)}
    /\ out = <<>>
    /\ encCalls = <<>>
    /\ rz = <<>>

\* the compressor is constructed with the limit of the request
Construct ==
    /\ pc = "upload"
    /\ out' = [self |-> ImageCompressor(req.max_file_size_mb)]
    /\ pc' = "constructed"
    /\ UNCHANGED <<req, encCalls, rz>>

ValidateImage ==
    /\ pc = "constructed"
    /\ LET v == validate_image(out.self, req)
       IN  out' = [self |-> out.self, raised |-> v.raised, opened |-> v.opened,
                   result |-> v.result]
    /\ pc' = "validated"
    /\ UNCHANGED <<req, encCalls, rz>>

NextValidate == Construct \/ ValidateImage

SpecValidate == InitValidate /\ [][NextValidate]_vars

(***************************************************************************)
(* Properties of validate_image (specification SpecValidate).              *)
(***************************************************************************)
Validated == pc = "validated"

Returned == Validated /\ ~out.raised

Oversized == req.len > out.self.max_file_size

\* C11: every ValidationResult returned by validate_image has is_valid true
\* exactly when its error list is empty, and carries no raster exactly when
\* its error list is non-empty.
C11_ValidIffNoErrors ==
    Returned =>
        LET result == Val(out.result)
        IN  /\ result.is_valid <=> Len(result.errors) = 0
            /\ IsNone(result.image) <=> Len(result.errors) # 0
            /\ result.is_valid => result.image = req.content

\* an image that opens but has an unsupported format is not handed on
C11_Witness ==
    /\ Returned
    /\ ~IsNone(req.content)
    /\ Val(out.result).errors = <<"unsupported_format">>
    /\ IsNone(Val(out.result).image)

\* C12 as stated: an input longer than the maximum gets a result with
\* is_valid false, a size error and no raster, an input of exactly the
\* maximum length gets no size error, and the maximum is 50 MiB when the
\* compressor is constructed without an explicit limit.
C12_DefaultLimitFifty ==
    Validated =>
        /\ Oversized =>
              /\ Returned
              /\ ~Val(out.result).is_valid
              /\ "file_size" \in Elems(Val(out.result).errors)
              /\ IsNone(Val(out.result).image)
        /\ (Returned /\ req.len = out.self.max_file_size) =>
              "file_size" \notin Elems(Val(out.result).errors)
        /\ IsNone(req.max_file_size_mb) =>
              out.self.max_file_size = RoutesMaxFileSizeMb * BytesPerMb

\* C12, amended: an input longer than the maximum gets a result with
\* is_valid false, a size error and no raster, an input of exactly the
\* maximum length gets no size error; the maximum is the constructor's
\* argument in MiB, 10 MiB when the compressor is constructed without an
\* explicit limit and 50 MiB for the compressor the routes construct.
C12_SizeLimit ==
    Validated =>
        /\ Oversized =>
              /\ Returned
              /\ ~Val(out.result).is_valid
              /\ "file_size" \in Elems(Val(out.result).errors)
              /\ IsNone(Val(out.result).image)
        /\ (Returned /\ req.len = out.self.max_file_size) =>
              "file_size" \notin Elems(Val(out.result).errors)
        /\ IsNone(req.max_file_size_mb) =>
              out.self.max_file_size = DefaultMaxFileSizeMb * BytesPerMb
        /\ ~IsNone(req.max_file_size_mb) =>
              out.self.max_file_size = Val(req.max_file_size_mb) * BytesPerMb

\* a well-formed image one byte over the default limit is rejected for its
\* size alone
C12_Witness ==
    /\ Returned
    /\ IsNone(req.max_file_size_mb)
    /\ req.len = out.self.max_file_size + 1
    /\ Val(out.result).errors = <<"file_size">>

\* C13: validate_image never raises; bytes that do not decode and bytes that
\* decode to a format outside JPEG, PNG, WEBP, TIFF each get a result with
\* is_valid false, at least one error and no raster.
C13_NeverRaises ==
    Validated =>
        /\ ~out.raised
        /\ (IsNone(req.content) \/ Val(req.content).format \notin SupportedFormats) =>
              /\ ~Val(out.result).is_valid
              /\ Len(Val(out.result).errors) >= 1
              /\ IsNone(Val(out.result).image)

\* bytes that do not decode come back as a result with the decoder's error
C13_Witness ==
    /\ Returned
    /\ IsNone(req.content)
    /\ Val(out.result).errors = <<"invalid_image">>

\* C14: when the input exceeds the maximum file size, validate_image does
\* not call Image.open on it.
C14_SizeCheckGatesDecoding ==
    (Validated /\ Oversized) => ~out.opened

(***************************************************************************)
(* The entry paths of compress_image: the /process, /compress and /resize  *)
(* handlers of the routes module and a direct call.  A request carries an  *)
(* upload that validate_file and validate_image accept.                    *)
(***************************************************************************)
MinDimension == 1

MaxDimension == 10000

\* validators.py
validate_compression_mode(mode) == mode # "" /\ mode \in Modes

validate_resize_mode(mode) == mode = "" \/ mode \in {"original", "custom"}

validate_dimensions(width, height) ==
    /\ IsNone(width) \/ (Val(width) >= MinDimension /\ Val(width) <= MaxDimension)
    /\ IsNone(height) \/ (Val(height) >= MinDimension /\ Val(height) <= MaxDimension)

\* line 425: looking the mode up in self.compression_modes raises KeyError
\* for a mode that is no key of it; the lookup is reached only when no
\* explicit target took one of the branches of lines 418-423
DispatchRaises(mode, output_format, target_png) ==
    /\ ~target_png
    /\ ~(mode = "lossless" /\ output_format \in {"webp", "jpeg"})
    /\ mode \notin Modes

\* the steps compress_image performs on the raster up to the encode
\* dispatch, in order (lines 372-413)
PipelineSteps(call) ==
    <<"orientation", "color_mode">>
        \o (IF call.mode \in {"web", "high"} THEN <<"srgb">> ELSE <<>>)
        \o <<"resolve">>
        \o (IF ~Falsy(call.max_width) \/ ~Falsy(call.max_height)
            THEN <<"resize">> ELSE <<>>)

\* the results compress_image can return for a call: the codec decides the
\* lengths of the encodes and the float arithmetic the rounding of ties
Outcomes(call) ==
    {compress_image(WithTie(call, tieUp), first_len, retry_len) :
        tieUp \in BOOLEAN, first_len \in Lengths, retry_len \in Lengths}

\* a call of compress_image with any mode: the steps performed, whether
\* KeyError left the method, and the result when it returned
CallOutcomes(call) ==
    LET img == Normalize(call.image, call.mode)
        resolved == ResolveFormat(call.mode, call.output_format, _has_transparency(img))
    IN  IF DispatchRaises(call.mode, call.output_format, resolved.target_png)
        THEN {[raised |-> TRUE, steps |-> PipelineSteps(call), result |-> None]}
        ELSE {[raised |-> FALSE, steps |-> Append(PipelineSteps(call), "encode"),
               result |-> Some([metadata |-> res.metadata, calls |-> res.calls])] :
                 res \in Outcomes(call)}

\* the uploads of the requests: an opaque JPEG, a PNG with transparent
\* pixels and a CMYK TIFF with EXIF and ICC
EntryImages ==
    {i \in DecodedImages :
        \/ i.format = "JPEG" /\ i.mode = "RGB" /\ i.icc = "none"
        \/ i.format = "PNG" /\ i.mode = "RGBA" /\ i.alpha < OpaqueAlpha /\ i.icc = "none"
        \/ i.format = "TIFF" /\ i.mode = "CMYK" /\ i.exif}

EntryModes == Modes \cup {"turbo", ""}

EntryBounds == {<<None, None>>, <<Some(2), None>>, <<Some(0), Some(0)>>}

Paths == {"/process", "/compress", "/resize", "direct"}

\* what each entry path takes from its caller: /process reads
\* compression_mode, resize_mode, the bounds, quality and use_webp;
\* /compress reads mode, the bounds and quality; /resize reads the bounds;
\* a direct call passes every argument
Requests ==
    {[path |-> path, mode |-> mode, resize_mode |-> resize_mode,
      max_width |-> bounds[1], max_height |-> bounds[2], quality |-> quality,
      use_webp |-> use_webp, output_format |-> output_format,
      image |-> image, original_size |-> MaxBytes] :
        path \in Paths, mode \in EntryModes, resize_mode \in {"original", "custom"},
        bounds \in EntryBounds, quality \in {None, Some(20)},
        use_webp \in BOOLEAN, output_format \in OutputFormats,
        image \in EntryImages}

\* the fields an entry path does not read are fixed
Reads(r) ==
    /\ r.path # "/process" => r.resize_mode = "original" /\ ~r.use_webp
    /\ r.path # "direct" => r.output_format = "auto"
    /\ r.path = "/resize" => r.mode = "lossless" /\ IsNone(r.quality)

\* routes.py line 17 and the validate_image call of each handler
compressor == ImageCompressor(Some(RoutesMaxFileSizeMb))

Validation(r) ==
    Val(validate_image(compressor,
                       [len |-> r.original_size,
                        content |-> Some([format |-> r.image.format,
                                          mode |-> r.image.mode,
                                          size |-> r.image.size])]).result)

Call(r, mode, max_width, max_height, quality, output_format) ==
    [image |-> r.image, original_size |-> r.original_size, mode |-> mode,
     max_width |-> max_width, max_height |-> max_height, quality |-> quality,
     output_format |-> output_format]

\* a handler's answer before compress_image is reached
Refused(status) ==
    [status |-> status, steps |-> <<>>, result |-> None, extension |-> ""]

\* the try / except of a handler around compress_image: an exception
\* becomes a 500 answer; a 200 answer names the file with the extension
\* the handler chose
Answers(call, extension) ==
    {[status |-> IF o.raised THEN "500" ELSE "200", steps |-> o.steps,
      result |-> o.result, extension |-> IF o.raised THEN "" ELSE extension] :
        o \in CallOutcomes(call)}

\* routes.py line 155: extension = '.webp' if use_webp else '.jpg'
Extension(use_webp) == IF use_webp THEN ".webp" ELSE ".jpg"

InitEntry ==
    /\ pc = "request"
    /\ req \in {r \in Requests : Reads(r)}
    /\ out = <<>>
    /\ encCalls = <<>>
    /\ rz = <<>>

\* routes.py lines 76-170; use_webp, a boolean, is passed where
\* compress_image takes output_format
process_image ==
    /\ pc = "request"
    /\ req.path = "/process"
    /\ IF ~validate_compression_mode(req.mode) THEN out' = Refused("400")
       ELSE IF ~validate_resize_mode(req.resize_mode) THEN out' = Refused("400")
       ELSE IF ~validate_dimensions(req.max_width, req.max_height)
       THEN out' = Refused("400")
       ELSE IF ~Validation(req).is_valid THEN out' = Refused("400")
       ELSE out' \in Answers(Call(req, req.mode,
                                  IF req.resize_mode = "custom" THEN req.max_width
                                  ELSE None,
                                  IF req.resize_mode = "custom" THEN req.max_height
                                  ELSE None,
                                  req.quality,
                                  IF req.use_webp THEN "True" ELSE "False"),
                             Extension(req.use_webp))
    /\ pc' = "answered"
    /\ UNCHANGED <<req, encCalls, rz>>

\* routes.py lines 172-234: the mode of the form goes to compress_image as
\* it is
compress_route ==
    /\ pc = "request"
    /\ req.path = "/compress"
    /\ IF ~Validation(req).is_valid THEN out' = Refused("400")
       ELSE out' \in Answers(Call(req, req.mode, req.max_width, req.max_height,
                                  req.quality, "auto"),
                             "source")
    /\ pc' = "answered"
    /\ UNCHANGED <<req, encCalls, rz>>

\* routes.py lines 288-342: always 'lossless'
resize_image ==
    /\ pc = "request"
    /\ req.path = "/resize"
    /\ IF ~Validation(req).is_valid THEN out' = Refused("400")
       ELSE out' \in Answers(Call(req, "lossless", req.max_width, req.max_height,
                                  None, "auto"),
                             "source")
    /\ pc' = "answered"
    /\ UNCHANGED <<req, encCalls, rz>>

\* compress_image called by other code with a preloaded image
direct_call ==
    /\ pc = "request"
    /\ req.path = "direct"
    /\ out' \in {[status |-> IF o.raised THEN "KeyError" ELSE "returned",
                  steps |-> o.steps, result |-> o.result, extension |-> ""] :
                    o \in CallOutcomes(Call(req, req.mode, req.max_width,
                                            req.max_height, req.quality,
                                            req.output_format))}
    /\ pc' = "answered"
    /\ UNCHANGED <<req, encCalls, rz>>

NextEntry == process_image \/ compress_route \/ resize_image \/ direct_call

SpecEntry == InitEntry /\ [][NextEntry]_vars

(***************************************************************************)
(* Properties of the entry paths (specification SpecEntry).                *)
(***************************************************************************)
Answered == pc = "answered"

\* C15: on every entry path, a mode outside lossless, web, high is rejected
\* before orientation correction, colour normalization, format resolution
\* or resizing are performed on the raster, and is never processed as if it
\* were a known mode.
C15_UnknownModeRejectedFirst ==
    (Answered /\ req.mode \notin Modes) =>
        /\ out.status \in {"400", "500", "KeyError"}
        /\ out.steps = <<>>

(***************************************************************************)
(* The normalizer when library transforms fail.  A call comes with the     *)
(* set of library functions that raise on its raster: exif_transpose,      *)
(* convert, profileToProfile.                                              *)
(***************************************************************************)
LibraryTransforms == {"exif_transpose", "convert", "profileToProfile"}

\* lines 47-57: the exception of exif_transpose is caught, img is returned
ApplyExifOrientation(img, failing) ==
    IF "exif_transpose" \in failing
    THEN [raised |-> FALSE, failed |-> TRUE, img |-> img]
    ELSE [raised |-> FALSE, failed |-> FALSE, img |-> _apply_exif_orientation(img)]

\* lines 59-83: convert is called outside any try block
NormalizeColorMode(img, failing) ==
    IF img.mode \in {"RGB", "RGBA", "LA", "L"}
    THEN [raised |-> FALSE, failed |-> FALSE, img |-> img]
    ELSE IF "convert" \in failing
    THEN [raised |-> TRUE, failed |-> TRUE, img |-> img]
    ELSE [raised |-> FALSE, failed |-> FALSE, img |-> _normalize_color_mode(img)]

\* lines 85-103: the exception of ImageCms is caught, img is returned
ConvertToSrgb(img, failing) ==
    IF img.icc = "none" \/ img.mode \notin {"RGB", "RGBA"}
    THEN [raised |-> FALSE, failed |-> FALSE, img |-> img]
    ELSE IF "profileToProfile" \in failing
    THEN [raised |-> FALSE, failed |-> TRUE, img |-> img]
    ELSE [raised |-> FALSE, failed |-> FALSE, img |-> _convert_to_srgb(img)]

\* faulty variant: the sRGB step runs first and in every mode
NormalizeStepsSrgbFirst(img, mode, failing) ==
    LET srgb == ConvertToSrgb(img, failing)
        oriented == ApplyExifOrientation(srgb.img, failing)
        canonical == NormalizeColorMode(oriented.img, failing)
    IN  <<[step |-> "srgb", input |-> img, output |-> srgb],
          [step |-> "orientation", input |-> srgb.img, output |-> oriented],
          [step |-> "color_mode", input |-> oriented.img, output |-> canonical]>>

\* lines 372-380 with failing transforms: the steps run in order, each on
\* the result of the one before, until one raises
NormalizeSteps(img, mode, failing) ==
    LET oriented == ApplyExifOrientation(img, failing)
        canonical == NormalizeColorMode(oriented.img, failing)
        srgb == ConvertToSrgb(canonical.img, failing)
        first == <<[step |-> "orientation", input |-> img, output |-> oriented]>>
        second == <<[step |-> "color_mode", input |-> oriented.img,
                     output |-> canonical]>>
        third == <<[step |-> "srgb", input |-> canonical.img, output |-> srgb]>>
    IN  IF oriented.raised THEN first
        ELSE IF canonical.raised THEN first \o second
        ELSE IF mode \in {"web", "high"} THEN first \o second \o third
        ELSE first \o second

\* compress_image with failing transforms: an exception of a normalizer
\* step leaves compress_image, otherwise the call goes on with the raster
\* of the last step
FaultyOutcomes(call, failing) ==
    LET steps == NormalizeSteps(call.image, call.mode, failing)
        last == steps[Len(steps)].output
    IN  IF last.raised
        THEN {[raised |-> TRUE, steps |-> steps, result |-> None]}
        ELSE {[raised |-> FALSE, steps |-> steps,
               result |-> Some([metadata |-> res.metadata, calls |-> res.calls])] :
                 res \in {AfterNormalize(last.img, WithTie(call, tieUp), first_len,
                                         retry_len) :
                            tieUp \in BOOLEAN, first_len \in Lengths,
                            retry_len \in Lengths}}

FaultyCalls ==
    {[image |-> image, original_size |-> MaxBytes, mode |-> mode,
      max_width |-> max_width, max_height |-> None, quality |-> None,
      output_format |-> "auto", failing |-> failing] :
        image \in DecodedImages, mode \in Modes, max_width \in {None, Some(2)},
        failing \in SUBSET LibraryTransforms}

InitFaulty ==
    /\ pc = "called_faulty"
    /\ req \in FaultyCalls
    /\ out = <<>>
    /\ encCalls = <<>>
    /\ rz = <<>>

CompressImageFaulty ==
    /\ pc = "called_faulty"
    /\ out' \in FaultyOutcomes(req, req.failing)
    /\ pc' = "done_faulty"
    /\ UNCHANGED <<req, encCalls, rz>>

NextFaulty == CompressImageFaulty

SpecFaulty == InitFaulty /\ [][NextFaulty]_vars

(***************************************************************************)
(* Properties of the normalizer under failures (specification SpecFaulty). *)
(***************************************************************************)
DoneFaulty == pc = "done_faulty"

\* C16: whichever of orientation correction, colour-mode canonicalization
\* and ICC-to-sRGB conversion meets a failing library transform, the step
\* returns its input raster unchanged and compress_image returns an outcome
\* instead of raising.
C16_NoNormalizerFailureEscapes ==
    DoneFaulty =>
        /\ ~out.raised
        /\ \A i \in 1..Len(out.steps) :
              out.steps[i].output.failed =>
                  /\ ~out.steps[i].output.raised
                  /\ out.steps[i].output.img = out.steps[i].input

(***************************************************************************)
(* Properties of the explicit output policies, the quality table and the   *)
(* metadata handed to the encoders (specification Spec).                   *)
(***************************************************************************)
FirstCall == encCalls[1]

\* C17: with output policy jpeg in web or high mode the resolved format is
\* JPEG, and the warning list holds the transparency-flattening warning
\* exactly when the normalized raster has transparency.
C17_ExplicitJpeg ==
    (Done /\ req.mode \in {"web", "high"} /\ req.output_format = "jpeg") =>
        /\ out.metadata.format = "JPEG"
        /\ FirstCall.format = "JPEG"
        /\ "jpeg_flattens_transparency" \in Elems(out.metadata.format_warnings)
              <=> AlphaBelowOpaque(Normalized)

\* a transparent PNG sent to JPEG in web mode carries the warning
C17_Witness ==
    /\ Done /\ req.mode = "web" /\ req.output_format = "jpeg"
    /\ AlphaBelowOpaque(Normalized)
    /\ out.metadata.format = "JPEG"
    /\ "jpeg_flattens_transparency" \in Elems(out.metadata.format_warnings)

\* C18: with output policy png or webp in web or high mode the resolved
\* format is PNG or WEBP respectively, whatever the transparency of the
\* raster and whatever the source format, and no format warning is added.
C18_ExplicitPngWebp ==
    (Done /\ req.mode \in {"web", "high"} /\ req.output_format \in {"png", "webp"}) =>
        /\ out.metadata.format = (IF req.output_format = "png" THEN "PNG" ELSE "WEBP")
        /\ FirstCall.format = out.metadata.format
        /\ Elems(out.metadata.format_warnings) \cap FormatWarnings = {}

\* an opaque JPEG source sent to PNG in high mode
C18_Witness ==
    /\ Done /\ req.mode = "high" /\ req.output_format = "png"
    /\ req.image.format = "JPEG" /\ ~AlphaBelowOpaque(Normalized)
    /\ out.metadata.format = "PNG"
    /\ out.metadata.format_warnings = <<>>

\* the defaults of the quality table, for a call that gives no quality
DefaultsFollowTable ==
    IsNone(req.quality) =>
        /\ (req.mode = "web" /\ FirstCall.format = "WEBP") => FirstCall.quality = Some(75)
        /\ (req.mode = "web" /\ FirstCall.format = "JPEG") => FirstCall.quality = Some(85)
        /\ (req.mode = "high" /\ FirstCall.format = "WEBP") => FirstCall.quality = Some(40)
        /\ (req.mode = "high" /\ FirstCall.format = "JPEG") => FirstCall.quality = Some(60)
        /\ (req.mode = "lossless" /\ FirstCall.format = "JPEG") =>
              FirstCall.quality = Some(95)

\* C19 as stated: without a quality the encoder quality comes from the
\* table (web 75 WebP / 85 JPEG, high 40 WebP / 60 JPEG, lossless JPEG 95);
\* with a quality q the first encode in web and high mode uses exactly q.
C19_GivenQualityAlwaysUsed ==
    Done =>
        /\ DefaultsFollowTable
        /\ (~IsNone(req.quality) /\ req.mode \in {"web", "high"}) =>
              FirstCall.quality = req.quality

\* C19, amended: without a quality the encoder quality comes from the
\* table; with a quality q the first encode in web and high mode uses
\* exactly q when it writes WebP or JPEG, and takes no quality at all when
\* the output policy is png.
C19_QualityTable ==
    Done =>
        /\ DefaultsFollowTable
        /\ (~IsNone(req.quality) /\ req.mode \in {"web", "high"}) =>
              IF req.output_format = "png"
              THEN FirstCall.format = "PNG" /\ IsNone(FirstCall.quality)
              ELSE FirstCall.format \in {"WEBP", "JPEG"}
                      /\ FirstCall.quality = req.quality

\* a web call with quality 20 whose JPEG encode uses 20
C19_Witness ==
    /\ Done /\ req.mode = "web" /\ req.quality = Some(20)
    /\ FirstCall.format = "JPEG" /\ FirstCall.quality = Some(20)

\* C20: in web and high mode, for every output policy and for the retry as
\* well, no encode is handed the source's EXIF blob or ICC profile, and no
\* written file holds the source's ICC profile.
C20_MetadataStripped ==
    (Done /\ req.mode \in {"web", "high"}) =>
        \A i \in 1..Len(encCalls) :
            /\ ~encCalls[i].exif
            /\ encCalls[i].icc # "source"
            /\ EmbeddedIcc(encCalls[i]) # "source"

(***************************************************************************)
(* Properties of the metadata and the raster handed to the encoders        *)
(* (specification Spec).                                                   *)
(***************************************************************************)
\* C21: in lossless mode under policy auto, the encode is handed the
\* source's EXIF blob when the source has one, and the written file holds
\* the source's ICC profile when the source has one, whatever the source
\* format.
C21_LosslessKeepsMetadata ==
    (Done /\ req.mode = "lossless" /\ req.output_format = "auto") =>
        /\ Normalized.exif => FirstCall.exif
        /\ Normalized.icc # "none" => EmbeddedIcc(FirstCall) = Normalized.icc

\* the raster compress_image hands to the encode dispatch has an alpha
\* channel (the resizer keeps the mode)
AlphaChannel == Normalized.mode \in {"RGBA", "LA"}

\* C22: whenever an encode writes JPEG, in any mode, first encode or retry,
\* the raster it is handed has no alpha channel, and a raster that had one
\* was first pasted on an opaque white background.
C22_JpegNeverGetsAlpha ==
    Done =>
        \A i \in 1..Len(encCalls) :
            encCalls[i].format = "JPEG" =>
                /\ encCalls[i].mode \notin {"RGBA", "LA", "PA"}
                /\ AlphaChannel => encCalls[i].matte = "white"

\* a transparent RGBA source written as JPEG twice, first encode and retry
C22_Witness ==
    /\ Done /\ req.mode = "high" /\ req.output_format = "jpeg"
    /\ Normalized.mode = "RGBA" /\ Normalized.alpha < OpaqueAlpha
    /\ Len(encCalls) = 2
    /\ encCalls[2].format = "JPEG" /\ encCalls[2].mode = "RGB"
    /\ encCalls[2].matte = "white"

(***************************************************************************)
(* Properties of the order of the normalizer (specification SpecFaulty).   *)
(***************************************************************************)
StepNames == [i \in 1..Len(out.steps) |-> out.steps[i].step]

LastStep == out.steps[Len(out.steps)]

\* C23: the normalizer steps run in the order orientation correction,
\* colour-mode canonicalization, ICC-to-sRGB conversion, each on the result
\* of the one before and all before format resolution and resize; the sRGB
\* step runs exactly when the mode is web or high.
C23_NormalizerOrder ==
    DoneFaulty =>
        /\ StepNames = SubSeq(<<"orientation", "color_mode", "srgb">>, 1, Len(out.steps))
        /\ out.steps[1].input = req.image
        /\ \A i \in 2..Len(out.steps) : out.steps[i].input = out.steps[i - 1].output.img
        /\ ~out.raised =>
              /\ Len(out.steps) = (IF req.mode \in {"web", "high"} THEN 3 ELSE 2)
              /\ Val(out.result).metadata.original_dimensions = LastStep.output.img.size
              /\ Val(out.result).metadata.original_format = LastStep.output.img.format
              /\ Val(out.result).metadata.final_dimensions \in
                    {_resize_image(LastStep.output.img, req.max_width, req.max_height,
                                   tieUp).size : tieUp \in BOOLEAN}
              /\ req.mode \in {"web", "high"} =>
                    (Val(out.result).metadata.format = "WEBP"
                        <=> AlphaBelowOpaque(LastStep.output.img))
        /\ req.failing = {} => LastStep.output.img = Normalize(req.image, req.mode)

\* a rotated CMYK source with an ICC profile in web mode: the sides are
\* exchanged, the mode is RGB and only then the profile is converted
C23_Witness ==
    /\ DoneFaulty /\ ~out.raised /\ req.failing = {} /\ req.mode = "web"
    /\ req.image.mode = "CMYK" /\ req.image.orient = 6 /\ req.image.icc = "source"
    /\ Len(out.steps) = 3
    /\ LastStep.output.img.mode = "RGB" /\ LastStep.output.img.icc = "sRGB"
    /\ Val(out.result).metadata.original_dimensions = <<3, 4>>
    /\ req.max_width = Some(2)
    /\ Val(out.result).metadata.final_dimensions = <<2, 3>>

(***************************************************************************)
(* Colour-mode canonicalization alone: _normalize_color_mode applied to a  *)
(* raster of any pixel mode.                                               *)
(***************************************************************************)
\* the pixel modes of Pillow the decoders or a caller's preloaded image can
\* bring
PixelModes == {"RGB", "RGBA", "LA", "L", "CMYK", "P", "PA", "I", "1", "F",
               "YCbCr", "LAB", "I;16"}

\* rasters of every pixel mode: alpha minimum, 'transparency' in info (for
\* palette rasters), format tag (None for an image built in memory) and
\* metadata
ColorModeInputs ==
    {[format |-> f, mode |-> m, alpha |-> a, transparency |-> t, size |-> sz,
      exif |-> tags[1], orient |-> tags[2], icc |-> tags[3], matte |-> "none"] :
        f \in Formats \cup {"None"}, m \in PixelModes,
        a \in {0, OpaqueAlpha}, t \in BOOLEAN, sz \in SourceSizes, tags \in MetaTags}

InitColorMode ==
    /\ pc = "color_mode"
    /\ req \in {i \in ColorModeInputs :
                  /\ i.transparency => i.mode \in {"P", "PA"}
                  /\ i.alpha < OpaqueAlpha =>
                        (i.mode \in {"RGBA", "LA", "PA"} \/ i.transparency)}
    /\ out = <<>>
    /\ encCalls = <<>>
    /\ rz = <<>>

NormalizeColorModeStep ==
    /\ pc = "color_mode"
    /\ out' = [img |-> _normalize_color_mode(req)]
    /\ pc' = "canonical"
    /\ UNCHANGED <<req, encCalls, rz>>

NextColorMode == NormalizeColorModeStep

SpecColorMode == InitColorMode /\ [][NextColorMode]_vars

\* C24: after colour-mode canonicalization the pixel mode is one of RGB,
\* RGBA, LA, L: rasters of these modes come back unchanged, CMYK becomes
\* RGB, a palette raster with transparency (a transparency entry in its
\* info, or an alpha band) becomes RGBA, an opaque palette raster becomes
\* RGB, every other mode becomes RGB; the format tag is the same before and
\* after.
C24_CanonicalModes ==
    pc = "canonical" =>
        /\ out.img.mode \in {"RGB", "RGBA", "LA", "L"}
        /\ req.mode \in {"RGB", "RGBA", "LA", "L"} => out.img = req
        /\ req.mode = "CMYK" => out.img.mode = "RGB"
        /\ (req.mode \in {"P", "PA"} /\ (req.transparency \/ req.mode = "PA")) =>
              out.img.mode = "RGBA"
        /\ (req.mode = "P" /\ ~req.transparency) => out.img.mode = "RGB"
        /\ req.mode \notin {"RGB", "RGBA", "LA", "L", "CMYK", "P", "PA"} =>
              out.img.mode = "RGB"
        /\ out.img.format = req.format
        /\ out.img.size = req.size

\* a palette PNG with a transparency entry comes back as an RGBA PNG
C24_Witness ==
    /\ pc = "canonical"
    /\ req.mode = "P" /\ req.transparency /\ req.format = "PNG"
    /\ out.img.mode = "RGBA" /\ out.img.format = "PNG"

(***************************************************************************)
(* Two invocations on the shared compressor of the routes module.  Each    *)
(* validates its upload and, when it is valid, compresses it; the steps of *)
(* the two interleave.  out.self is the compressor instance, out.locals    *)
(* the local variables of each invocation.                                 *)
(***************************************************************************)
Threads == {1, 2}

\* faulty variant: validate_image keeps the size it saw as the new limit
InstanceAfterValidateStores(self, image_data) ==
    [self EXCEPT !.max_file_size = image_data.len - 1]

\* validate_image (105-144) assigns no attribute of self
InstanceAfterValidate(self, image_data) == self

\* compress_image (349-469) assigns no attribute of self
InstanceAfterCompress(self, call) == self

\* what one invocation is given: the bytes of its upload and a mode
ConcurrentRequests ==
    {[len |-> len, image |-> image, mode |-> mode] :
        len \in {compressor.max_file_size, compressor.max_file_size + 1},
        image \in EntryImages, mode \in Modes}

UploadOf(r) ==
    [len |-> r.len,
     content |-> Some([format |-> r.image.format, mode |-> r.image.mode,
                       size |-> r.image.size])]

CallOf(r) ==
    [image |-> r.image, original_size |-> r.len, mode |-> r.mode,
     max_width |-> None, max_height |-> None, quality |-> None,
     output_format |-> "auto"]

InitConcurrent ==
    /\ pc = [t \in Threads |-> "validate"]
    /\ req \in [Threads -> ConcurrentRequests]
    /\ out = [self |-> compressor,
              locals |-> [t \in Threads |-> [validation |-> None, img |-> None,
                                             result |-> None]]]
    /\ encCalls = <<>>
    /\ rz = <<>>

\* validate_image reads self.max_file_size
ValidateStep(t) ==
    /\ pc[t] = "validate"
    /\ LET v == Val(validate_image(out.self, UploadOf(req[t])).result)
       IN  /\ out' = [out EXCEPT
                        !.self = InstanceAfterValidate(out.self, UploadOf(req[t])),
                        !.locals[t].validation = Some(v)]
           /\ pc' = [pc EXCEPT ![t] = IF v.is_valid THEN "normalize" ELSE "refused"]
    /\ UNCHANGED <<req, encCalls, rz>>

\* lines 366-380 of compress_image
NormalizeStep(t) ==
    /\ pc[t] = "normalize"
    /\ out' = [out EXCEPT
                 !.locals[t].img = Some(Normalize(req[t].image, req[t].mode))]
    /\ pc' = [pc EXCEPT ![t] = "encode"]
    /\ UNCHANGED <<req, encCalls, rz>>

\* lines 382-469 of compress_image; the dispatch reads
\* self.compression_modes
EncodeStep(t) ==
    /\ pc[t] = "encode"
    /\ \E tieUp \in BOOLEAN, first_len \in Lengths, retry_len \in Lengths :
          LET res == AfterNormalize(Val(out.locals[t].img), WithTie(CallOf(req[t]), tieUp),
                                    first_len, retry_len)
          IN  out' = [out EXCEPT
                        !.self = InstanceAfterCompress(out.self, CallOf(req[t])),
                        !.locals[t].result = Some([data |-> res.data,
                                                   metadata |-> res.metadata,
                                                   calls |-> res.calls])]
    /\ pc' = [pc EXCEPT ![t] = "returned"]
    /\ UNCHANGED <<req, encCalls, rz>>

NextConcurrent == \E t \in Threads : ValidateStep(t) \/ NormalizeStep(t) \/ EncodeStep(t)

SpecConcurrent == InitConcurrent /\ [][NextConcurrent]_vars

\* the outcomes of an invocation that runs alone on the routes' compressor
AloneValidation(r) == Val(validate_image(compressor, UploadOf(r)).result)

AloneResults(r) ==
    {[data |-> res.data, metadata |-> res.metadata, calls |-> res.calls] :
        res \in Outcomes(CallOf(r))}

\* C25: validate_image and compress_image write no field of the shared
\* compressor, and under every interleaving of two invocations each one
\* gets an outcome it can get when it runs alone.
C25_NoSharedState ==
    /\ out.self = compressor
    /\ \A t \in Threads :
          /\ pc[t] # "validate" =>
                Val(out.locals[t].validation) = AloneValidation(req[t])
          /\ pc[t] = "returned" =>
                Val(out.locals[t].result) \in AloneResults(req[t])
          /\ pc[t] = "refused" => ~AloneValidation(req[t]).is_valid

\* of two invocations on the shared compressor, the oversized one is
\* refused and the other one is compressed
C25_Witness ==
    /\ pc[1] = "refused" /\ pc[2] = "returned"
    /\ req[1].len > compressor.max_file_size
    /\ req[2].len = compressor.max_file_size
    /\ req[2].mode = "high"

(***************************************************************************)
(* compress_image called with watermark keywords, as the tests of the      *)
(* repository call it.  The signature of lines 349-358 has no watermark    *)
(* parameter and the class has no add_watermark method.                    *)
(***************************************************************************)
\* the parameters of compress_image, lines 351-357
Parameters == {"image_data", "mode", "max_width", "max_height", "quality",
               "output_format", "preloaded_image"}

\* Python binds the arguments before the body runs: a keyword that names no
\* parameter raises TypeError
BindRaises(keywords) == ~(keywords \subseteq Parameters)

\* the keywords of a call and the watermark text it passes: no watermark
\* keyword at all, or watermark_text (None, empty or a text) with or
\* without watermark_options
WatermarkArgs ==
    {[keywords |-> {"image_data", "mode", "max_width", "max_height"},
      watermark_text |-> None]}
    \cup {[keywords |-> {"image_data", "mode", "max_width", "max_height"} \cup extra,
           watermark_text |-> text] :
            extra \in {{"watermark_text"}, {"watermark_text", "watermark_options"}},
            text \in {None, Some(""), Some("Hello")}}

WatermarkCalls ==
    {[image |-> image, original_size |-> MaxBytes, mode |-> mode,
      max_width |-> bounds[1], max_height |-> bounds[2], quality |-> None,
      output_format |-> "auto", keywords |-> args.keywords,
      watermark_text |-> args.watermark_text] :
        image \in EntryImages, mode \in Modes,
        bounds \in {<<None, None>>, <<Some(2), Some(2)>>}, args \in WatermarkArgs}

InitWatermark ==
    /\ pc = "called_keywords"
    /\ req \in WatermarkCalls
    /\ out = <<>>
    /\ encCalls = <<>>
    /\ rz = <<>>

\* the call: TypeError at the binding of the arguments, otherwise the body
\* of compress_image, in which nothing composites a watermark.  events are
\* the components invoked on the raster, in order.
CompressImageKeywords ==
    /\ pc = "called_keywords"
    /\ IF BindRaises(req.keywords)
       THEN out' = [raised |-> TRUE, events |-> <<>>, result |-> None]
       ELSE out' \in {[raised |-> o.raised, events |-> o.steps, result |-> o.result] :
                        o \in CallOutcomes(Call(req, req.mode, req.max_width,
                                                req.max_height, req.quality,
                                                req.output_format))}
    /\ pc' = "done_keywords"
    /\ UNCHANGED <<req, encCalls, rz>>

NextWatermark == CompressImageKeywords

SpecWatermark == InitWatermark /\ [][NextWatermark]_vars

(***************************************************************************)
(* Properties of the watermark (specification SpecWatermark).              *)
(***************************************************************************)
DoneKeywords == pc = "done_keywords"

HasWatermarkText == ~IsNone(req.watermark_text) /\ Val(req.watermark_text) # ""

\* the positions of an event in the events of the call
Positions(event) == {i \in 1..Len(out.events) : out.events[i] = event}

\* C26: a call with watermark text and resize bounds invokes the resizer
\* first, then the watermark compositor exactly once on the resized raster,
\* and only then the encoder.
C26_WatermarkAfterResize ==
    (DoneKeywords /\ HasWatermarkText /\ ~Falsy(req.max_width)) =>
        /\ ~out.raised
        /\ Cardinality(Positions("watermark")) = 1
        /\ \A r \in Positions("resize"), w \in Positions("watermark"),
              e \in Positions("encode") : r < w /\ w < e

\* C27: the watermark compositor is invoked exactly once when a non-empty
\* watermark text is given and not at all when the text is None or empty,
\* and in both cases the call returns an outcome.
C27_WatermarkOnlyWithText ==
    DoneKeywords =>
        /\ ~out.raised
        /\ ~IsNone(out.result)
        /\ Cardinality(Positions("watermark")) = (IF HasWatermarkText THEN 1 ELSE 0)

(***************************************************************************)
(* Properties of the reported format (specification Spec).                 *)
(***************************************************************************)
\* the encode that produced the returned bytes
ReturnedCall == encCalls[out.data.attempt]

\* C28: for every mode, output policy, source format and resize setting,
\* the format reported in the metadata is the container format the encoder
\* was invoked with for the returned bytes.
C28_ReportedFormatIsEncoded ==
    Done => out.metadata.format = ReturnedCall.format

(***************************************************************************)
(* Properties of the /process handler (specification SpecEntry).           *)
(***************************************************************************)
Processed == Answered /\ req.path = "/process" /\ out.status = "200"

\* C29: in the /process handler, for every mode and every value of
\* use_webp, the extension of the returned filename matches the format
\* reported in the response metadata (.webp only for WEBP, .jpg only for
\* JPEG), and use_webp = true yields WEBP output.
C29_ExtensionMatchesFormat ==
    Processed =>
        /\ out.extension = ".webp" <=> Val(out.result).metadata.format = "WEBP"
        /\ out.extension = ".jpg" <=> Val(out.result).metadata.format = "JPEG"
        /\ req.use_webp => Val(out.result).metadata.format = "WEBP"

(***************************************************************************)
(* Login lockout (auth.py).  out holds the Auth object's login_attempts,   *)
(* the clock time.time() reads, the session of each client and a record of *)
(* the last login call; req holds the configured password hashes.          *)
(***************************************************************************)
MaxTicks == 3

MaxAttempts == 5

LockoutTime == 300

IPs == {"10.0.0.1", "10.0.0.2"}

\* the clock moves by a second or by just under the lockout time
TickSteps == {1, LockoutTime - 1}

\* which of PASSWORD_HASH and FALLBACK_HASH the application configures
HashConfigs == SUBSET {"environment", "fallback"}

\* the password of an attempt: the one of either hash, or a wrong one
Passwords == {"environment", "fallback", "wrong"}

\* faulty variant: the lockout still holds at exactly lockout_time
IsLockedOutInclusive(attempts, now) ==
    /\ ~IsNone(attempts)
    /\ Val(attempts).count >= MaxAttempts
    /\ now - Val(attempts).last_attempt <= LockoutTime

\* lines 129-133: whether _is_locked_out returns True
IsLockedOut(attempts, now) ==
    /\ ~IsNone(attempts)
    /\ Val(attempts).count >= MaxAttempts
    /\ now - Val(attempts).last_attempt < LockoutTime

\* lines 127-135: login_attempts[ip] after _is_locked_out: an expired
\* lockout is reset
AfterLockoutCheck(attempts, now) ==
    IF ~IsNone(attempts) /\ Val(attempts).count >= MaxAttempts
          /\ ~IsLockedOut(attempts, now)
    THEN None
    ELSE attempts

\* lines 137-143
_record_failed_attempt(attempts, now) ==
    LET current == IF IsNone(attempts) THEN [count |-> 0, last_attempt |-> 0]
                   ELSE Val(attempts)
    IN  Some([count |-> current.count + 1, last_attempt |-> now])

\* lines 145-148
_reset_attempts(attempts) == None

\* lines 85-98: check_password_hash against the configured hashes
IsValid(config, password) == password \in config

\* login, lines 61-125, for the record of the caller's IP: the value
\* returned, whether session['authenticated'] is set, the record
\* afterwards and whether RateLimitExceeded was raised (the except clause
\* of line 120 catches it)
login(config, attempts, password, now) ==
    IF IsLockedOut(attempts, now)
    THEN [returns |-> FALSE, authenticates |-> FALSE, attempts |-> attempts,
          rate_limited |-> TRUE]
    ELSE LET checked == AfterLockoutCheck(attempts, now)
         IN  IF config = {}
             THEN [returns |-> FALSE, authenticates |-> FALSE, attempts |-> checked,
                   rate_limited |-> FALSE]
             ELSE IF IsValid(config, password)
             THEN [returns |-> TRUE, authenticates |-> TRUE,
                   attempts |-> _reset_attempts(checked), rate_limited |-> FALSE]
             ELSE [returns |-> FALSE, authenticates |-> FALSE,
                   attempts |-> _record_failed_attempt(checked, now),
                   rate_limited |-> FALSE]


NoAttempts == [ip \in IPs |-> None]

InitLogin ==
    /\ pc = "login"
    /\ req \in [config : HashConfigs]
    /\ out = [login_attempts |-> NoAttempts, session |-> [ip \in IPs |-> FALSE],
              now |-> 0, ticks |-> 0, last |-> None]
    /\ encCalls = <<>>
    /\ rz = <<>>

\* time.time() moves on between two requests; last describes a call only
\* until then
Tick ==
    /\ pc = "login"
    /\ out.ticks < MaxTicks
    /\ \E d \in TickSteps :
         out' = [out EXCEPT !.now = @ + d, !.ticks = @ + 1, !.last = None]
    /\ UNCHANGED <<pc, req, encCalls, rz>>

\* routes.py lines 27-51: a POST of the login form from ip.  last keeps
\* what the call found and what it left: the IP's record and the client's
\* session['authenticated'] before and after.
Login ==
    /\ pc = "login"
    /\ \E ip \in IPs, password \in Passwords :
         LET before == out.login_attempts[ip]
             done   == login(req.config, before, password, out.now)
         IN  out' = [out EXCEPT
                       !.login_attempts[ip] = done.attempts,
                       !.session[ip] = IF done.authenticates THEN TRUE ELSE @,
                       !.last = Some([ip |-> ip, password |-> password,
                                      at |-> out.now, before |-> before,
                                      after |-> done.attempts,
                                      session_before |-> out.session[ip],
                                      session_after |-> out.session[ip] \/ done.authenticates,
                                      returns |-> done.returns,
                                      rate_limited |-> done.rate_limited])]
    /\ UNCHANGED <<pc, req, encCalls, rz>>

NextLogin == Tick \/ Login

SpecLogin == InitLogin /\ [][NextLogin]_vars

\* the last login call found five recorded failures, the last of them
\* less than 300 seconds old / at least 300 seconds old
LastInLockout ==
    /\ ~IsNone(out.last)
    /\ ~IsNone(Val(out.last).before)
    /\ Val(Val(out.last).before).count >= 5
    /\ Val(out.last).at - Val(Val(out.last).before).last_attempt < 300

LastAfterLockout ==
    /\ ~IsNone(out.last)
    /\ ~IsNone(Val(out.last).before)
    /\ Val(Val(out.last).before).count >= 5
    /\ Val(out.last).at - Val(Val(out.last).before).last_attempt >= 300

\* C30: a login attempt from an IP with 5 recorded failures, made less than
\* 300 seconds after the last of them, is refused whatever the password,
\* leaves session['authenticated'] and the IP's record (count and
\* last-attempt time) as they were; an attempt made 300 seconds or more
\* after it forgets the five failures (the record is gone, or is a fresh
\* one of this single failure); a successful login leaves no record for
\* the IP.
C30_LoginLockout ==
    ~IsNone(out.last) =>
        LET l == Val(out.last)
        IN  /\ LastInLockout =>
                /\ ~l.returns
                /\ l.session_after = l.session_before
                /\ l.after = l.before
            /\ LastAfterLockout =>
                \/ IsNone(l.after)
                \/ Val(l.after) = [count |-> 1, last_attempt |-> l.at]
            /\ l.returns => IsNone(l.after) /\ l.session_after

\* a correct password was refused 299 seconds after the fifth failure, for
\* a client that was not logged in
C30_Witness ==
    /\ LastInLockout
    /\ Val(out.last).password \in req.config
    /\ Val(out.last).at - Val(Val(out.last).before).last_attempt = 299
    /\ ~Val(out.last).session_before
    /\ ~Val(out.last).returns

\* a correct password was accepted exactly 300 seconds after the fifth
\* failure

C30_WitnessExpired ==
    /\ LastAfterLockout
    /\ Val(out.last).at - Val(Val(out.last).before).last_attempt = 300
    /\ Val(out.last).returns

====
